---- MODULE Spec2Model ----
(***************************************************************************)
(* Model of the incremental markdown renderer (the streaming message       *)
(* component embedded in src/server/api/search.get.js, lines 66-404).      *)
(*                                                                         *)
(* A JavaScript string is modelled as the sequence of its characters, each *)
(* character a one-character TLA+ string; the empty string is <<>>.        *)
(* An HTML string is modelled as the sequence of the nodes it parses to;   *)
(* a node is identified by the markdown source it was rendered from.       *)
(***************************************************************************)
EXTENDS Integers, Sequences, FiniteSets, TLC

(***************************************************************************)
(* Bounds of the model.                                                    *)
(***************************************************************************)
\* longest content (in tokens) delivered to the component
MaxTokens == 3
\* longest input (in tokens) given to splitIntoBlocks on its own
MaxSplitTokens == 5
\* longest content (in tokens) that replaces another without extending it
MaxReplaceTokens == 2
\* most changes of the props after the component is set up
MaxUpdates == 3
\* most characters by which the tail buffer may come to exceed the content
MaxTailExcess == 1
\* most nodes the committed region may come to hold
MaxStaticNodes == 2
\* most callbacks pending when the props change again within a flush
MaxPending == 1
\* calls of addFile made in one run of the attachments composable
MaxAddCalls == 5
\* most code blocks in the container given to the lazy highlighter
MaxCodeBlocks == 2

NL == "\n"
\* The backtick cannot be written inside a TLA+ string: the apostrophe
\* stands for it (the apostrophe itself is in no modelled input).
Backtick == "'"
BackFence == <<Backtick, Backtick, Backtick>>
TildeFence == <<"~", "~", "~">>

\* The chunks the delivered contents are built from: a letter, a newline,
\* and a newline followed by a fence delimiter.
Tokens == {<<"a">>, <<NL>>, <<NL>> \o BackFence}
\* The pieces the inputs of splitIntoBlocks alone are built from.
SplitTokens == {<<"a">>, <<NL>>, <<">">>, BackFence, TildeFence, <<" ">>}

RECURSIVE TokenStrings(_, _)
TokenStrings(toks, n) ==
    IF n = 0 THEN {<<>>}
    ELSE LET S == TokenStrings(toks, n - 1)
         IN  S \cup {s \o t : s \in S, t \in toks}

Contents == TokenStrings(Tokens, MaxTokens)
\* The contents that may follow the content cur: cur extended by one token,
\* or any content of at most MaxReplaceTokens tokens (shorter, diverging,
\* a prefix of cur, empty, or cur itself with the other isComplete).
Replacements == TokenStrings(Tokens, MaxReplaceTokens)
NextContents(cur) == ({cur \o t : t \in Tokens} \cap Contents) \cup Replacements
SplitInputs == TokenStrings(SplitTokens, MaxSplitTokens)

(***************************************************************************)
(* String primitives of JavaScript used by the component.                  *)
(***************************************************************************)
Whitespace == {" ", NL, "\t"}
Digits == {"0", "1", "2", "3", "4", "5", "6", "7", "8", "9"}

\* String.prototype.startsWith
StartsWith(s, p) == Len(p) <= Len(s) /\ SubSeq(s, 1, Len(p)) = p

\* String.prototype.slice(n): the characters from (0-based) index n on
Slice(s, n) == SubSeq(s, n + 1, Len(s))

\* String.prototype.substring(0, n)
Substring0(s, n) == SubSeq(s, 1, n)

Min(a, b) == IF a < b THEN a ELSE b

\* the elements of a sequence
Range(seq) == {seq[i] : i \in DOMAIN seq}

RECURSIVE TrimLeft(_)
TrimLeft(s) ==
    IF s # <<>> /\ s[1] \in Whitespace THEN TrimLeft(Tail(s)) ELSE s

RECURSIVE TrimRight(_)
TrimRight(s) ==
    IF s # <<>> /\ s[Len(s)] \in Whitespace
    THEN TrimRight(SubSeq(s, 1, Len(s) - 1)) ELSE s

\* String.prototype.trim
Trim(s) == TrimRight(TrimLeft(s))

\* String.prototype.split on the newline
RECURSIVE SplitNL(_)
SplitNL(s) ==
    IF \A i \in 1..Len(s) : s[i] # NL THEN <<s>>
    ELSE LET i == CHOOSE k \in 1..Len(s) :
                      s[k] = NL /\ \A j \in 1..(k - 1) : s[j] # NL
         IN  <<SubSeq(s, 1, i - 1)>> \o SplitNL(SubSeq(s, i + 1, Len(s)))

\* Array.prototype.join with the newline
RECURSIVE JoinNL(_)
JoinNL(lines) ==
    IF lines = <<>> THEN <<>>
    ELSE IF Len(lines) = 1 THEN lines[1]
    ELSE lines[1] \o <<NL>> \o JoinNL(Tail(lines))

(***************************************************************************)
(* Block splitting.                                                        *)
(***************************************************************************)
\* trimmed.match(/^(BackFence|~~~)/): the delimiter matched, <<>> for no match
fenceMatchTildeBlind(trimmed) ==
    IF StartsWith(trimmed, BackFence) THEN BackFence ELSE <<>>

fenceMatch(trimmed) ==
    IF StartsWith(trimmed, BackFence) THEN BackFence
    ELSE IF StartsWith(trimmed, TildeFence) THEN TildeFence
    ELSE <<>>

\* the blockStarters pattern: heading, blockquote, bullet, ordered item,
\* backtick fence, tilde fence, table row
blockStarters(line) ==
    \/ \E k \in 1..6 : /\ Len(line) >= k + 1
                       /\ \A j \in 1..k : line[j] = "#"
                       /\ line[k + 1] \in Whitespace
    \/ StartsWith(line, <<">">>)
    \/ /\ Len(line) >= 2
       /\ line[1] \in {"-", "*", "+"}
       /\ line[2] \in Whitespace
    \/ \E k \in 1..Len(line) : /\ Len(line) >= k + 2
                               /\ \A j \in 1..k : line[j] \in Digits
                               /\ line[k + 1] = "."
                               /\ line[k + 2] \in Whitespace
    \/ StartsWith(line, BackFence)
    \/ StartsWith(line, TildeFence)
    \/ StartsWith(line, <<"|">>)

\* the first later line that is not blank (findIndex), then lines[...];
\* <<>> stands for null (a non-blank line is never the empty string)
nextNonBlankLine(lines, i) ==
    LET later == {k \in (i + 1)..Len(lines) : Trim(lines[k]) # <<>>}
    IN  IF later = {} THEN <<>>
        ELSE lines[CHOOSE k \in later : \A m \in later : k <= m]

\* The body of the for loop over the lines, from line i on, and the code
\* after the loop.
RECURSIVE splitLoop(_, _, _, _, _, _)
splitLoop(lines, i, blocks, currentBlock, inCodeFence, fenceChar) ==
    IF i > Len(lines)
    THEN LET all == IF currentBlock # <<>>
                    THEN Append(blocks, JoinNL(currentBlock)) ELSE blocks
         IN  IF all # <<>> THEN all ELSE << <<>> >>
    ELSE
    LET line == lines[i]
        trimmed == Trim(line)
        fm == fenceMatch(trimmed)
    IN  IF fm # <<>>
        THEN IF ~inCodeFence
             THEN splitLoop(lines, i + 1,
                            IF currentBlock # <<>>
                            THEN Append(blocks, JoinNL(currentBlock))
                            ELSE blocks,
                            <<line>>, TRUE, fm)
             ELSE IF StartsWith(trimmed, fenceChar)
             THEN splitLoop(lines, i + 1,
                            Append(blocks, JoinNL(Append(currentBlock, line))),
                            <<>>, FALSE, <<>>)
             ELSE splitLoop(lines, i + 1, blocks, Append(currentBlock, line),
                            inCodeFence, fenceChar)
        ELSE IF inCodeFence
        THEN splitLoop(lines, i + 1, blocks, Append(currentBlock, line),
                       inCodeFence, fenceChar)
        ELSE IF trimmed = <<>> /\ currentBlock # <<>>
        THEN LET nextLine == nextNonBlankLine(lines, i)
             IN  IF nextLine = <<>> \/ blockStarters(nextLine)
                 THEN splitLoop(lines, i + 1,
                                Append(blocks, JoinNL(currentBlock)),
                                <<>>, inCodeFence, fenceChar)
                 ELSE splitLoop(lines, i + 1, blocks,
                                Append(currentBlock, line),
                                inCodeFence, fenceChar)
        ELSE splitLoop(lines, i + 1, blocks, Append(currentBlock, line),
                       inCodeFence, fenceChar)

splitIntoBlocksNoEmptyGuard(markdown) ==
    IF markdown = <<>> THEN <<>>
    ELSE splitLoop(SplitNL(markdown), 1, <<>>, <<>>, FALSE, <<>>)

splitIntoBlocks(markdown) ==
    IF markdown = <<>> THEN << <<>> >>
    ELSE splitLoop(SplitNL(markdown), 1, <<>>, <<>>, FALSE, <<>>)

(***************************************************************************)
(* State.                                                                  *)
(***************************************************************************)
VARIABLES
    props,                  \* the props: [content, isComplete]
    mounted,                \* the template refs are set (component mounted)
    staticContainer,        \* child nodes of the committed (static) element
    streamingContainer,     \* child nodes of the in-flight (streaming) element
    vnodeHtml,              \* the v-html value of the last render of the view
    streamingHtml,          \* the reactive ref streamingHtml
    staticBlockCount,
    tailMarkdown,
    prevContent,
    lastRenderKey,
    hasEmittedStart,
    lastCompleteBlockCount,
    tickQueue,              \* callbacks given to nextTick, not yet run
    emitted,                \* events emitted by the last run of the watcher
    path,                   \* branch of processContentNow taken by that run
    discarded,              \* committed nodes that run's rewind cleared away
    sessionStarts,          \* 'start' events since the last return to idle
    sessionContent,         \* non-empty content arrived since then
    updates,                \* changes of the props so far
    stale,                  \* callbacks pending from before the last change
    splitPc,                \* the block splitter on its own: position,
    splitInput,             \*   its argument
    splitOutput,            \*   and its result
    attachments,            \* useAttachments: the ref attachments
    error,                  \*   the ref error
    addFileCalls,           \*   each call of addFile: position and file
    codeBlocks,             \* lazyHighlight: the code elements of the container
    observer,               \*   the module variable observer
    observed,               \*   the elements the observer observes
    hasIntersectionObserver,\*   'IntersectionObserver' in window
    uncaught                \*   an error has propagated out of the module

ctl == <<props, mounted, staticContainer, streamingContainer, vnodeHtml,
         streamingHtml, staticBlockCount, tailMarkdown, prevContent,
         lastRenderKey, hasEmittedStart, lastCompleteBlockCount, tickQueue,
         emitted, path, discarded, sessionStarts, sessionContent, updates,
         stale>>
splitVars == <<splitPc, splitInput, splitOutput>>
attVars == <<attachments, error, addFileCalls>>
hlVars == <<codeBlocks, observer, observed, hasIntersectionObserver, uncaught>>
vars == <<ctl, splitVars, attVars, hlVars>>

\* The component's state as one value, threaded through the functions below
\* in the order the code runs its statements.
State ==
    [mounted |-> mounted,
     staticContainer |-> staticContainer,
     streamingContainer |-> streamingContainer,
     vnodeHtml |-> vnodeHtml,
     streamingHtml |-> streamingHtml,
     staticBlockCount |-> staticBlockCount,
     tailMarkdown |-> tailMarkdown,
     prevContent |-> prevContent,
     lastRenderKey |-> lastRenderKey,
     hasEmittedStart |-> hasEmittedStart,
     lastCompleteBlockCount |-> lastCompleteBlockCount,
     tickQueue |-> tickQueue,
     emitted |-> emitted,
     path |-> path,
     discarded |-> discarded]

InitialState ==
    [mounted |-> FALSE,
     staticContainer |-> <<>>,
     streamingContainer |-> <<>>,
     vnodeHtml |-> <<>>,
     streamingHtml |-> <<>>,
     staticBlockCount |-> 0,
     tailMarkdown |-> <<>>,
     prevContent |-> <<>>,
     lastRenderKey |-> <<>>,
     hasEmittedStart |-> FALSE,
     lastCompleteBlockCount |-> 0,
     tickQueue |-> <<>>,
     emitted |-> <<>>,
     path |-> "none",
     discarded |-> <<>>]

(***************************************************************************)
(* Rendering.                                                              *)
(***************************************************************************)
RECURSIVE StripNewlines(_)
StripNewlines(s) ==
    IF s # <<>> /\ s[1] = NL THEN StripNewlines(Tail(s))
    ELSE IF s # <<>> /\ s[Len(s)] = NL
    THEN StripNewlines(SubSeq(s, 1, Len(s) - 1))
    ELSE s

\* md.render: the external markdown engine.  Blank text renders to the empty
\* string; other text renders to one node, identified by its source without
\* the leading and trailing blank lines (which the engine ignores).
mdRender(text) ==
    IF Trim(text) = <<>> THEN <<>> ELSE <<StripNewlines(text)>>

renderBlockHtml(mdText) ==
    IF mdText = <<>> \/ Trim(mdText) = <<>> THEN <<>> ELSE mdRender(mdText)

\* The view layer's re-render of the template: v-html patches innerHTML of
\* the streaming element when the bound value differs from the value of the
\* previous render.
vueRender(st) ==
    IF st.streamingHtml # st.vnodeHtml
    THEN [st EXCEPT !.streamingContainer = st.streamingHtml,
                    !.vnodeHtml = st.streamingHtml]
    ELSE st

\* nextTick(fn): the callback runs after the current flush of the view
nextTick(st, fn, arg) ==
    [st EXCEPT !.tickQueue = Append(@, [fn |-> fn, arg |-> arg])]

emit(st, event) == [st EXCEPT !.emitted = Append(@, event)]

(***************************************************************************)
(* The functions of the component.                                         *)
(***************************************************************************)
flushToStaticPrepends(st) ==
    IF ~st.mounted THEN st
    ELSE [st EXCEPT
            !.staticContainer = st.streamingContainer \o @,
            !.staticBlockCount = @ + Len(st.streamingContainer),
            !.streamingContainer = <<>>]

flushToStaticCountsCall(st) ==
    IF ~st.mounted THEN st
    ELSE [st EXCEPT
            !.staticContainer = @ \o st.streamingContainer,
            !.staticBlockCount = @ + Len(st.streamingContainer) + 1,
            !.streamingContainer = <<>>]

flushToStatic(st) ==
    IF ~st.mounted THEN st
    ELSE [st EXCEPT
            !.staticContainer = @ \o st.streamingContainer,
            !.staticBlockCount = @ + Len(st.streamingContainer),
            !.streamingContainer = <<>>]

setStreamingHtml(st, html) ==
    IF st.lastRenderKey = html THEN st
    ELSE [st EXCEPT !.lastRenderKey = html, !.streamingHtml = html]

finalizeAll(st, fullText) ==
    IF ~st.mounted THEN st
    ELSE LET s1 == [st EXCEPT !.staticContainer = <<>>,
                              !.staticBlockCount = 0]
             s2 == setStreamingHtml(s1, mdRender(fullText))
         IN  nextTick(s2, "finalizeDeferred", fullText)

\* the callback finalizeAll gives to nextTick
finalizeDeferred(st, fullText) ==
    LET s1 == flushToStatic(st)
    IN  [s1 EXCEPT !.tailMarkdown = <<>>,
                   !.staticBlockCount = 0,
                   !.lastCompleteBlockCount = 0,
                   !.lastRenderKey = <<>>,
                   !.prevContent = fullText,
                   !.streamingHtml = <<>>]

\* let accumulatedHtml = ''; for (const block of blocks) ... += html
RECURSIVE accumulateHtml(_)
accumulateHtml(blocks) ==
    IF blocks = <<>> THEN <<>>
    ELSE renderBlockHtml(Head(blocks)) \o accumulateHtml(Tail(blocks))

\* blocks.slice(0, -1) when there is more than one block
completeBlocksOf(blocks) ==
    IF Len(blocks) > 1 THEN SubSeq(blocks, 1, Len(blocks) - 1) ELSE <<>>

\* blocks[blocks.length - 1]
streamingBlockOf(blocks) ==
    IF Len(blocks) > 0 THEN blocks[Len(blocks)] ELSE <<>>

processAppendedSuffixAlwaysCounts(st, suffix) ==
    IF suffix = <<>>
    THEN setStreamingHtml(st,
             renderBlockHtml(streamingBlockOf(splitIntoBlocks(st.tailMarkdown))))
    ELSE
    LET s1 == [st EXCEPT !.tailMarkdown = @ \o suffix]
        blocks == splitIntoBlocks(s1.tailMarkdown)
        completeBlocks == completeBlocksOf(blocks)
        streamingBlock == streamingBlockOf(blocks)
        newBlocks == SubSeq(completeBlocks, s1.lastCompleteBlockCount + 1,
                            Len(completeBlocks))
        accumulatedHtml == accumulateHtml(newBlocks)
        s2 == IF accumulatedHtml # <<>>
              THEN nextTick(setStreamingHtml(s1, accumulatedHtml),
                            "flushToStatic", <<>>)
              ELSE s1
        s3 == [s2 EXCEPT !.lastCompleteBlockCount = Len(completeBlocks)]
    IN  setStreamingHtml(s3, renderBlockHtml(streamingBlock))

processAppendedSuffixReplacesTail(st, suffix) ==
    IF suffix = <<>>
    THEN setStreamingHtml(st,
             renderBlockHtml(streamingBlockOf(splitIntoBlocks(st.tailMarkdown))))
    ELSE
    LET s1 == [st EXCEPT !.tailMarkdown = suffix]
        blocks == splitIntoBlocks(s1.tailMarkdown)
        completeBlocks == completeBlocksOf(blocks)
        streamingBlock == streamingBlockOf(blocks)
        s3 == IF Len(completeBlocks) > s1.lastCompleteBlockCount
              THEN LET newBlocks ==
                           SubSeq(completeBlocks,
                                  s1.lastCompleteBlockCount + 1,
                                  Len(completeBlocks))
                       accumulatedHtml == accumulateHtml(newBlocks)
                       s2 == IF accumulatedHtml # <<>>
                             THEN nextTick(
                                      setStreamingHtml(s1, accumulatedHtml),
                                      "flushToStatic", <<>>)
                             ELSE s1
                   IN  [s2 EXCEPT
                          !.lastCompleteBlockCount = Len(completeBlocks)]
              ELSE s1
    IN  setStreamingHtml(s3, renderBlockHtml(streamingBlock))

processAppendedSuffix(st, suffix) ==
    IF suffix = <<>>
    THEN setStreamingHtml(st,
             renderBlockHtml(streamingBlockOf(splitIntoBlocks(st.tailMarkdown))))
    ELSE
    LET s1 == [st EXCEPT !.tailMarkdown = @ \o suffix]
        blocks == splitIntoBlocks(s1.tailMarkdown)
        completeBlocks == completeBlocksOf(blocks)
        streamingBlock == streamingBlockOf(blocks)
        s3 == IF Len(completeBlocks) > s1.lastCompleteBlockCount
              THEN LET newBlocks ==
                           SubSeq(completeBlocks,
                                  s1.lastCompleteBlockCount + 1,
                                  Len(completeBlocks))
                       accumulatedHtml == accumulateHtml(newBlocks)
                       s2 == IF accumulatedHtml # <<>>
                             THEN nextTick(
                                      setStreamingHtml(s1, accumulatedHtml),
                                      "flushToStatic", <<>>)
                             ELSE s1
                   IN  [s2 EXCEPT
                          !.lastCompleteBlockCount = Len(completeBlocks)]
              ELSE s1
    IN  setStreamingHtml(s3, renderBlockHtml(streamingBlock))

handleNonPrefixReplaceKeepsStatic(st, newContent, isComplete) ==
    IF isComplete THEN finalizeAll(st, newContent)
    ELSE
    LET s1 == [st EXCEPT !.staticBlockCount = 0,
                         !.lastCompleteBlockCount = 0,
                         !.tailMarkdown = <<>>,
                         !.lastRenderKey = <<>>,
                         !.prevContent = <<>>]
        blocks == splitIntoBlocks(newContent)
        completeBlocks == completeBlocksOf(blocks)
        accumulatedHtml == accumulateHtml(completeBlocks)
        s2 == IF accumulatedHtml # <<>>
              THEN nextTick(setStreamingHtml(s1, accumulatedHtml),
                            "flushToStatic", <<>>)
              ELSE s1
        s3 == [s2 EXCEPT !.lastCompleteBlockCount = Len(completeBlocks),
                         !.tailMarkdown = streamingBlockOf(blocks)]
        s4 == setStreamingHtml(s3, renderBlockHtml(s3.tailMarkdown))
    IN  [s4 EXCEPT !.prevContent = newContent]

handleNonPrefixReplace(st, newContent, isComplete) ==
    IF isComplete THEN finalizeAll(st, newContent)
    ELSE
    LET s1 == [st EXCEPT !.staticContainer = <<>>,
                         !.discarded = st.staticContainer,
                         !.staticBlockCount = 0,
                         !.lastCompleteBlockCount = 0,
                         !.tailMarkdown = <<>>,
                         !.lastRenderKey = <<>>,
                         !.prevContent = <<>>]
        blocks == splitIntoBlocks(newContent)
        completeBlocks == completeBlocksOf(blocks)
        accumulatedHtml == accumulateHtml(completeBlocks)
        s2 == IF accumulatedHtml # <<>>
              THEN nextTick(setStreamingHtml(s1, accumulatedHtml),
                            "flushToStatic", <<>>)
              ELSE s1
        s3 == [s2 EXCEPT !.lastCompleteBlockCount = Len(completeBlocks),
                         !.tailMarkdown = streamingBlockOf(blocks)]
        s4 == setStreamingHtml(s3, renderBlockHtml(s3.tailMarkdown))
    IN  [s4 EXCEPT !.prevContent = newContent]

processContentNow(st, newContent, isComplete) ==
    IF st.prevContent = <<>>
    THEN LET s1 == IF ~st.hasEmittedStart
                   THEN [emit(st, "start") EXCEPT !.hasEmittedStart = TRUE]
                   ELSE st
             s2 == handleNonPrefixReplace(s1, newContent, FALSE)
         IN  [s2 EXCEPT !.prevContent = newContent, !.path = "fresh"]
    ELSE IF isComplete
    THEN [emit(finalizeAll(st, newContent), "complete")
             EXCEPT !.path = "finalize"]
    ELSE IF StartsWith(newContent, st.prevContent)
    THEN LET suffix == Slice(newContent, Len(st.prevContent))
             s1 == processAppendedSuffix(st, suffix)
         IN  [s1 EXCEPT !.prevContent = newContent, !.path = "append"]
    ELSE
    LET minLength == Min(Len(st.prevContent), Len(newContent))
    IN  IF \/ minLength = 0
           \/ ~StartsWith(newContent, Substring0(st.prevContent, minLength))
        THEN [handleNonPrefixReplace(st, newContent, isComplete)
                 EXCEPT !.path = "rewind"]
        ELSE LET s1 == processAppendedSuffix(st, <<>>)
             IN  [s1 EXCEPT !.prevContent = newContent, !.path = "shrink"]

\* the callback of watch(() => [props.content, props.isComplete], ...)
watchCallback(st, newContent, isComplete) ==
    LET s0 == [st EXCEPT !.emitted = <<>>, !.discarded = <<>>]
        s1 == IF newContent = <<>> \/ Len(newContent) < Len(s0.prevContent)
              THEN [s0 EXCEPT !.hasEmittedStart = FALSE]
              ELSE s0
    IN  processContentNow(s1, newContent, isComplete)

\* one callback of the nextTick queue
runCallback(st, cb) ==
    IF cb.fn = "flushToStatic" THEN flushToStatic(st)
    ELSE finalizeDeferred(st, cb.arg)

(***************************************************************************)
(* The attachments composable (src/app/composables/useAttachments.js).     *)
(***************************************************************************)
MAX_FILE_SIZE == 20 * 1024 * 1024
MAX_ATTACHMENTS == 4

ImageTypes == {"image/png", "image/jpeg", "image/jpg", "image/webp",
               "image/gif"}
ImageExtensions == {"png", "jpg", "jpeg", "webp", "gif"}
ALLOWED_EXTENSIONS == ImageExtensions \cup {"pdf"}

\* ALLOWED_TYPES[type]; "" stands for undefined
ALLOWED_TYPES(type) ==
    IF type \in ImageTypes THEN "image"
    ELSE IF type = "application/pdf" THEN "pdf"
    ELSE ""

\* The files given to addFile: size, extension of the name, MIME type.
Files ==
    {[size |-> 1, extension |-> "png", type |-> "image/png"],
     [size |-> 1, extension |-> "pdf", type |-> "application/pdf"],
     [size |-> 1, extension |-> "jpg", type |-> ""],
     [size |-> 1, extension |-> "txt", type |-> "text/plain"],
     [size |-> MAX_FILE_SIZE + 1, extension |-> "pdf",
      type |-> "application/pdf"]}

NoFile == [size |-> 0, extension |-> "", type |-> ""]

\* the calls of addFile; a call's number is the id of the attachment it adds
AddCalls == 1..MaxAddCalls

validateFile(file, supportsVision) ==
    IF file.size > MAX_FILE_SIZE
    THEN [valid |-> FALSE, error |-> "size limit"]
    ELSE
    LET fileType == ALLOWED_TYPES(file.type)
        isAllowedExtension == file.extension \in ALLOWED_EXTENSIONS
        isImage == fileType = "image" \/ file.extension \in ImageExtensions
    IN  IF fileType = "" /\ ~isAllowedExtension
        THEN [valid |-> FALSE, error |-> "type not supported"]
        ELSE IF isImage /\ ~supportsVision
        THEN [valid |-> FALSE, error |-> "no image analysis"]
        ELSE [valid |-> TRUE, error |-> "null"]

\* the attachment addFile pushes for the file once it has been read
attachmentOf(id, file) ==
    LET type == IF ALLOWED_TYPES(file.type) # ""
                THEN ALLOWED_TYPES(file.type)
                ELSE IF file.extension \in ImageExtensions
                THEN "image" ELSE "pdf"
    IN  [id |-> id,
         type |-> type,
         mimeType |-> IF file.type # "" THEN file.type
                      ELSE IF type = "pdf" THEN "application/pdf"
                      ELSE "image/" \o file.extension]

AttInit ==
    /\ attachments = <<>>
    /\ error = "null"
    /\ addFileCalls = [c \in AddCalls |->
                          [pc |-> "idle", file |-> NoFile, success |-> FALSE]]

\* addFile up to its await: the limit check, the validation, and the start
\* of the read of the file.
AddFileCheck(c, file, supportsVision) ==
    /\ addFileCalls[c].pc = "idle"
    \* calls are numbered in the order they are made
    /\ \A b \in AddCalls : b < c => addFileCalls[b].pc # "idle"
    /\ IF Len(attachments) >= MAX_ATTACHMENTS
       THEN /\ error' = "maximum reached"
            /\ addFileCalls' = [addFileCalls EXCEPT ![c].pc = "returned"]
       ELSE LET validation == validateFile(file, supportsVision)
            IN  IF ~validation.valid
                THEN /\ error' = validation.error
                     /\ addFileCalls' =
                            [addFileCalls EXCEPT ![c].pc = "returned"]
                ELSE /\ error' = "null"
                     /\ addFileCalls' =
                            [addFileCalls EXCEPT ![c].pc = "reading",
                                                 ![c].file = file]
    /\ UNCHANGED <<attachments, ctl, splitVars, hlVars>>

\* addFile after its await: the read has succeeded and the attachment is
\* pushed, or it has failed and the catch block sets the error.
AddFileResume(c, readOk) ==
    /\ addFileCalls[c].pc = "reading"
    /\ IF readOk
       THEN /\ attachments' =
                  Append(attachments, attachmentOf(c, addFileCalls[c].file))
            /\ addFileCalls' = [addFileCalls EXCEPT ![c].pc = "returned",
                                                    ![c].file = NoFile,
                                                    ![c].success = TRUE]
            /\ UNCHANGED error
       ELSE /\ error' = "failed to process"
            /\ addFileCalls' = [addFileCalls EXCEPT ![c].pc = "returned",
                                                    ![c].file = NoFile]
            /\ UNCHANGED attachments
    /\ UNCHANGED <<ctl, splitVars, hlVars>>

\* attachments.value.filter(a => a.id !== id)
RECURSIVE withoutId(_, _)
withoutId(list, id) ==
    IF list = <<>> THEN <<>>
    ELSE IF Head(list).id = id THEN withoutId(Tail(list), id)
    ELSE <<Head(list)>> \o withoutId(Tail(list), id)

removeAttachment(id) ==
    /\ \E i \in DOMAIN attachments : attachments[i].id = id
    /\ attachments' = withoutId(attachments, id)
    /\ UNCHANGED <<error, addFileCalls, ctl, splitVars, hlVars>>

clearAttachments ==
    /\ attachments # <<>> \/ error # "null"
    /\ attachments' = <<>>
    /\ error' = "null"
    /\ UNCHANGED <<addFileCalls, ctl, splitVars, hlVars>>

clearError ==
    /\ error # "null"
    /\ error' = "null"
    /\ UNCHANGED <<attachments, addFileCalls, ctl, splitVars, hlVars>>

(***************************************************************************)
(* The lazy highlighter (src/app/utils/lazyHighlight.js).                  *)
(***************************************************************************)
\* A class name is the sequence of its classes; a class is a word, with or
\* without the prefix language- in front of it.
Class(prefixed, word) == [language |-> prefixed, word |-> word]

\* The class names of the code elements: as the fence renderer writes them
\* (hljs, then the first word of the info string), for the info strings
\* javascript, language-javascript, language-nosuch and none.
ClassNames ==
    {<<Class(FALSE, "hljs"), Class(FALSE, "javascript")>>,
     <<Class(FALSE, "hljs"), Class(TRUE, "javascript")>>,
     <<Class(FALSE, "hljs"), Class(TRUE, "nosuch")>>,
     <<Class(FALSE, "hljs"), Class(FALSE, "text")>>}

\* the languages hljs.getLanguage knows
KnownLanguages == {"javascript"}

\* a code element as the fence renderer writes it; calls and threw record
\* how often highlightBlock was given the element and whether the
\* highlighter threw for it
CodeElement(className, hasText) ==
    [className |-> className,
     textContent |-> hasText,
     innerHTML |-> "original",
     needsHighlight |-> TRUE,
     calls |-> 0,
     threw |-> FALSE]

CodeElements == {CodeElement(c, t) : c \in ClassNames, t \in BOOLEAN}

Containers ==
    UNION {[1..n -> CodeElements] : n \in 1..MaxCodeBlocks}

\* className.match(/language-(\w+)/), then langMatch ? langMatch[1] : 'text'
langOf(className) ==
    LET matches == {i \in DOMAIN className : className[i].language}
    IN  IF matches = {} THEN "text"
        ELSE className[CHOOSE i \in matches : \A j \in matches : i <= j].word

\* highlightBlock without its try and catch: the error of the highlighter
\* leaves the function
highlightBlockNoCatch(codeElement, throws) ==
    LET called == [codeElement EXCEPT !.calls = Min(@ + 1, 2)]
        lang == langOf(codeElement.className)
    IN  IF ~codeElement.textContent
        THEN [element |-> called, raised |-> FALSE]
        ELSE IF lang # "text" /\ lang \in KnownLanguages
        THEN IF throws
             THEN [element |-> [called EXCEPT !.threw = TRUE],
                   raised |-> TRUE]
             ELSE [element |->
                       [called EXCEPT
                          !.innerHTML = "highlighted",
                          !.className =
                              IF Class(FALSE, "hljs") \in Range(@)
                              THEN @ ELSE Append(@, Class(FALSE, "hljs"))],
                   raised |-> FALSE]
        ELSE [element |-> called, raised |-> FALSE]

\* highlightBlock(codeElement); throws: hljs.highlight throws in this call.
\* The result is the element and whether an error leaves the function.
highlightBlock(codeElement, throws) ==
    LET called == [codeElement EXCEPT !.calls = Min(@ + 1, 2)]
        lang == langOf(codeElement.className)
    IN  IF ~codeElement.textContent
        THEN [element |-> called, raised |-> FALSE]
        ELSE IF lang # "text" /\ lang \in KnownLanguages
        THEN IF throws
             THEN [element |-> [called EXCEPT !.threw = TRUE],
                   raised |-> FALSE]
             ELSE [element |->
                       [called EXCEPT
                          !.innerHTML = "highlighted",
                          !.className =
                              IF Class(FALSE, "hljs") \in Range(@)
                              THEN @ ELSE Append(@, Class(FALSE, "hljs"))],
                   raised |-> FALSE]
        ELSE [element |-> called, raised |-> FALSE]

\* the elements of a set of indices, in document order
RECURSIVE inOrder(_)
inOrder(indices) ==
    IF indices = {} THEN <<>>
    ELSE LET first == CHOOSE i \in indices : \A j \in indices : i <= j
         IN  <<first>> \o inOrder(indices \ {first})

\* container.querySelectorAll('code[data-needs-highlight="true"]')
needingHighlight(blocks) ==
    inOrder({i \in DOMAIN blocks : blocks[i].needsHighlight})

\* blocks.forEach(block => { highlightBlock(block);
\*                           block.dataset.needsHighlight = 'false' })
\* over the elements list; an error leaving highlightBlock ends the loop.
RECURSIVE highlightEach(_, _, _)
highlightEach(blocks, list, throwing) ==
    IF list = <<>> THEN [blocks |-> blocks, raised |-> FALSE]
    ELSE LET i == Head(list)
             r == highlightBlock(blocks[i], i \in throwing)
         IN  IF r.raised
             THEN [blocks |-> [blocks EXCEPT ![i] = r.element],
                   raised |-> TRUE]
             ELSE highlightEach(
                      [blocks EXCEPT
                         ![i] = [r.element EXCEPT !.needsHighlight = FALSE]],
                      Tail(list), throwing)

\* The observer's callback over the entries list (all intersecting): an
\* element that still needs highlighting is highlighted, marked and
\* unobserved.  The result also names the elements unobserved.
RECURSIVE observerCallback(_, _, _, _)
observerCallback(blocks, list, throwing, unobserved) ==
    IF list = <<>>
    THEN [blocks |-> blocks, raised |-> FALSE, unobserved |-> unobserved]
    ELSE LET i == Head(list)
         IN  IF ~blocks[i].needsHighlight
             THEN observerCallback(blocks, Tail(list), throwing, unobserved)
             ELSE LET r == highlightBlock(blocks[i], i \in throwing)
                  IN  IF r.raised
                      THEN [blocks |-> [blocks EXCEPT ![i] = r.element],
                            raised |-> TRUE, unobserved |-> unobserved]
                      ELSE observerCallback(
                               [blocks EXCEPT
                                  ![i] = [r.element EXCEPT
                                            !.needsHighlight = FALSE]],
                               Tail(list), throwing, unobserved \cup {i})

HlInit ==
    /\ codeBlocks = <<>>
    /\ observer = "null"
    /\ observed = {}
    /\ hasIntersectionObserver = FALSE
    /\ uncaught = FALSE

\* A container of code elements is rendered (by the fence renderer of
\* src/app/utils/markdown.js) in a window with or without
\* IntersectionObserver.
RenderContainer(container, io) ==
    /\ codeBlocks = <<>>
    /\ codeBlocks' = container
    /\ hasIntersectionObserver' = io
    /\ UNCHANGED <<observer, observed, uncaught, ctl, splitVars, attVars>>

\* (with an observer already there, or without IntersectionObserver in the
\* window, the function returns at once)
initLazyHighlighting ==
    /\ codeBlocks # <<>>
    /\ observer = "null"
    /\ hasIntersectionObserver
    /\ observer' = "observer"
    /\ UNCHANGED <<codeBlocks, observed, hasIntersectionObserver, uncaught,
                   ctl, splitVars, attVars>>

observeCodeBlocks(throwing) ==
    /\ codeBlocks # <<>>
    /\ ~uncaught
    /\ LET obs == IF observer = "null" /\ hasIntersectionObserver
                  THEN "observer" ELSE observer
           list == needingHighlight(codeBlocks)
       IN  /\ list # <<>>
           /\ observer' = obs
           /\ IF obs # "null"
              THEN /\ observed' = observed \cup Range(list)
                   /\ UNCHANGED <<codeBlocks, uncaught>>
              ELSE LET r == highlightEach(codeBlocks, list, throwing)
                   IN  /\ codeBlocks' = r.blocks
                       /\ uncaught' = r.raised
                       /\ UNCHANGED observed
    /\ UNCHANGED <<hasIntersectionObserver, ctl, splitVars, attVars>>

\* The observer reports the elements of entries as intersecting.
ObserverReports(entries, throwing) ==
    /\ observer # "null"
    /\ ~uncaught
    /\ entries # {}
    /\ entries \subseteq observed
    /\ LET r == observerCallback(codeBlocks, inOrder(entries), throwing, {})
       IN  /\ codeBlocks' = r.blocks
           /\ uncaught' = r.raised
           /\ observed' = observed \ r.unobserved
    /\ UNCHANGED <<observer, hasIntersectionObserver, ctl, splitVars, attVars>>

highlightAllBlocks(throwing) ==
    /\ codeBlocks # <<>>
    /\ ~uncaught
    /\ needingHighlight(codeBlocks) # <<>>
    /\ LET r == highlightEach(codeBlocks, needingHighlight(codeBlocks),
                              throwing)
       IN  /\ codeBlocks' = r.blocks
           /\ uncaught' = r.raised
    /\ UNCHANGED <<observer, observed, hasIntersectionObserver, ctl,
                   splitVars, attVars>>

cleanupLazyHighlighting ==
    /\ observer # "null"
    /\ observer' = "null"
    /\ observed' = {}
    /\ UNCHANGED <<codeBlocks, hasIntersectionObserver, uncaught, ctl,
                   splitVars, attVars>>

(***************************************************************************)
(* Actions.                                                                *)
(***************************************************************************)
Commit(st) ==
    /\ mounted' = st.mounted
    /\ staticContainer' = st.staticContainer
    /\ streamingContainer' = st.streamingContainer
    /\ vnodeHtml' = st.vnodeHtml
    /\ streamingHtml' = st.streamingHtml
    /\ staticBlockCount' = st.staticBlockCount
    /\ tailMarkdown' = st.tailMarkdown
    /\ prevContent' = st.prevContent
    /\ lastRenderKey' = st.lastRenderKey
    /\ hasEmittedStart' = st.hasEmittedStart
    /\ lastCompleteBlockCount' = st.lastCompleteBlockCount
    /\ tickQueue' = st.tickQueue
    /\ emitted' = st.emitted
    /\ path' = st.path
    /\ discarded' = st.discarded

\* The bounds of the model: the tail buffer exceeds the content by at most
\* MaxTailExcess characters, and the committed region holds at most
\* MaxStaticNodes nodes once the pending callbacks have run.
WithinBounds(st, newContent) ==
    /\ Len(st.tailMarkdown) <= Len(newContent) + MaxTailExcess
    /\ Len(st.staticContainer) + Len(st.streamingContainer) <= MaxStaticNodes

CountOf(events, e) == Cardinality({i \in 1..Len(events) : events[i] = e})

\* Bookkeeping of the session an update belongs to: an update with empty
\* content (reset) and a finalizing update return the controller to idle.
Session(st, newContent) ==
    /\ sessionStarts' =
         IF st.path = "finalize" THEN 0
         ELSE IF newContent = <<>> THEN CountOf(st.emitted, "start")
         ELSE sessionStarts + CountOf(st.emitted, "start")
    /\ sessionContent' = (st.path # "finalize" /\ newContent # <<>>)

\* setup(): the watcher is immediate, so its callback runs once with the
\* initial props before the template refs exist; then the component mounts
\* and renders.
Setup(newContent, isComplete) ==
    /\ ~mounted
    /\ splitPc = "off"
    /\ LET s1 == watchCallback(State, newContent, isComplete)
           s2 == vueRender([s1 EXCEPT !.mounted = TRUE])
       IN  Commit(s2) /\ Session(s2, newContent)
    /\ props' = [content |-> newContent, isComplete |-> isComplete]
    /\ stale' = 0
    /\ UNCHANGED <<updates, splitVars, attVars, hlVars>>

\* A change of the props: the watcher's callback runs in the flush of the
\* view that delivers the new props, and the view re-renders in that flush.
\* Either the callbacks given to nextTick by the previous flush have run by
\* then, or (inFlush) the change is made while the flush that ran the
\* previous change is still running (by a handler of an emitted event, or by
\* any other job of that flush): the view runs the job it queues, and with
\* it the watcher's callback and the re-render, before the flush ends, that
\* is before the callbacks the previous run gave to nextTick.
ChangeProps(newContent, isComplete, inFlush) ==
    /\ mounted
    /\ IF inFlush
       THEN /\ tickQueue # <<>>
            /\ Len(tickQueue) <= MaxPending
            /\ updates < MaxUpdates
       ELSE /\ tickQueue = <<>>
            /\ updates < MaxUpdates
    /\ <<newContent, isComplete>> # <<props.content, props.isComplete>>
    /\ LET s1 == watchCallback(State, newContent, isComplete)
           s2 == vueRender(s1)
       IN  WithinBounds(s2, newContent) /\ Commit(s2) /\ Session(s2, newContent)
    /\ props' = [content |-> newContent, isComplete |-> isComplete]
    /\ updates' = updates + 1
    /\ stale' = IF inFlush THEN Len(tickQueue) ELSE 0
    /\ UNCHANGED <<splitVars, attVars, hlVars>>

Update(newContent, isComplete) == ChangeProps(newContent, isComplete, FALSE)

\* The first callback given to nextTick runs.
Tick ==
    /\ tickQueue # <<>>
    /\ LET s1 == [State EXCEPT !.tickQueue = Tail(@)]
       IN  Commit(runCallback(s1, Head(tickQueue)))
    /\ stale' = IF stale > 0 THEN stale - 1 ELSE 0
    /\ UNCHANGED <<props, sessionStarts, sessionContent, updates, splitVars,
                   attVars, hlVars>>

\* A flush of the view queued by a callback that wrote streamingHtml.
FlushJobs ==
    /\ mounted
    /\ tickQueue = <<>>
    /\ streamingHtml # vnodeHtml
    /\ Commit(vueRender(State))
    /\ UNCHANGED <<props, sessionStarts, sessionContent, updates, stale,
                   splitVars, attVars, hlVars>>

Init ==
    /\ props = [content |-> <<>>, isComplete |-> FALSE]
    /\ mounted = InitialState.mounted
    /\ staticContainer = InitialState.staticContainer
    /\ streamingContainer = InitialState.streamingContainer
    /\ vnodeHtml = InitialState.vnodeHtml
    /\ streamingHtml = InitialState.streamingHtml
    /\ staticBlockCount = InitialState.staticBlockCount
    /\ tailMarkdown = InitialState.tailMarkdown
    /\ prevContent = InitialState.prevContent
    /\ lastRenderKey = InitialState.lastRenderKey
    /\ hasEmittedStart = InitialState.hasEmittedStart
    /\ lastCompleteBlockCount = InitialState.lastCompleteBlockCount
    /\ tickQueue = InitialState.tickQueue
    /\ emitted = InitialState.emitted
    /\ path = InitialState.path
    /\ discarded = InitialState.discarded
    /\ sessionStarts = 0
    /\ sessionContent = FALSE
    /\ updates = 0
    /\ stale = 0
    /\ splitPc = "off"
    /\ splitInput = <<>>
    /\ splitOutput = <<>>
    /\ AttInit
    /\ HlInit

Next ==
    \/ \E c \in Contents, d \in BOOLEAN : Setup(c, d)
    \/ \E c \in NextContents(props.content), d \in BOOLEAN : Update(c, d)
    \/ Tick
    \/ FlushJobs

Spec == Init /\ [][Next]_vars

(***************************************************************************)
(* The component when its props may change again within one flush of the   *)
(* view, for the properties of callbacks that run after a later update.    *)
(***************************************************************************)
SameFlushNext ==
    \/ \E c \in Contents, d \in BOOLEAN : Setup(c, d)
    \/ \E c \in NextContents(props.content), d \in BOOLEAN,
          inFlush \in BOOLEAN : ChangeProps(c, d, inFlush)
    \/ Tick
    \/ FlushJobs

SameFlushSpec == Init /\ [][SameFlushNext]_vars

(***************************************************************************)
(* The block splitter on its own, for the properties of the pure function. *)
(***************************************************************************)
SplitInit ==
    /\ props = [content |-> <<>>, isComplete |-> FALSE]
    /\ mounted = InitialState.mounted
    /\ staticContainer = InitialState.staticContainer
    /\ streamingContainer = InitialState.streamingContainer
    /\ vnodeHtml = InitialState.vnodeHtml
    /\ streamingHtml = InitialState.streamingHtml
    /\ staticBlockCount = InitialState.staticBlockCount
    /\ tailMarkdown = InitialState.tailMarkdown
    /\ prevContent = InitialState.prevContent
    /\ lastRenderKey = InitialState.lastRenderKey
    /\ hasEmittedStart = InitialState.hasEmittedStart
    /\ lastCompleteBlockCount = InitialState.lastCompleteBlockCount
    /\ tickQueue = InitialState.tickQueue
    /\ emitted = InitialState.emitted
    /\ path = InitialState.path
    /\ discarded = InitialState.discarded
    /\ sessionStarts = 0
    /\ sessionContent = FALSE
    /\ updates = 0
    /\ stale = 0
    /\ splitPc = "call"
    /\ splitInput \in SplitInputs
    /\ splitOutput = <<>>
    /\ AttInit
    /\ HlInit

CallSplit ==
    /\ splitPc = "call"
    /\ splitOutput' = splitIntoBlocks(splitInput)
    /\ splitPc' = "done"
    /\ UNCHANGED <<splitInput, ctl, attVars, hlVars>>

SplitNext == CallSplit

SplitSpec == SplitInit /\ [][SplitNext]_vars

(***************************************************************************)
(* The attachments composable on its own: concurrent calls of addFile,     *)
(* each suspended at its await, interleaved with the other operations.     *)
(***************************************************************************)
AttachNext ==
    \/ \E c \in AddCalls, f \in Files, v \in BOOLEAN : AddFileCheck(c, f, v)
    \/ \E c \in AddCalls, ok \in BOOLEAN : AddFileResume(c, ok)
    \/ \E id \in AddCalls : removeAttachment(id)
    \/ clearAttachments
    \/ clearError

AttachSpec == Init /\ [][AttachNext]_vars

(***************************************************************************)
(* The lazy highlighter on its own.                                        *)
(***************************************************************************)
HighlightNext ==
    \/ \E container \in Containers, io \in BOOLEAN :
           RenderContainer(container, io)
    \/ initLazyHighlighting
    \/ \E throwing \in SUBSET (1..MaxCodeBlocks) : observeCodeBlocks(throwing)
    \/ \E entries \in SUBSET (1..MaxCodeBlocks),
          throwing \in SUBSET (1..MaxCodeBlocks) :
           ObserverReports(entries, throwing)
    \/ \E throwing \in SUBSET (1..MaxCodeBlocks) : highlightAllBlocks(throwing)
    \/ cleanupLazyHighlighting

HighlightSpec == Init /\ [][HighlightNext]_vars

(***************************************************************************)
(* Vocabulary of the properties.                                           *)
(***************************************************************************)
\* a occurs in b as a contiguous run of characters
IsInfix(a, b) ==
    \E k \in 0..(Len(b) - Len(a)) : SubSeq(b, k + 1, k + Len(a)) = a

\* Nothing is pending: the callbacks given to nextTick have run and the view
\* shows the current value of streamingHtml.
Quiescent == mounted /\ tickQueue = <<>> /\ streamingHtml = vnodeHtml

\* The step runs the watcher's callback (at setup, or on a change of props).
WatcherRan == (~mounted /\ mounted') \/ updates' # updates

\* The rendering of every block of the content, in order.
RenderOfBlocks(content) == accumulateHtml(splitIntoBlocks(content))

\* a is the end of b
IsSuffix(a, b) ==
    Len(a) <= Len(b) /\ SubSeq(b, Len(b) - Len(a) + 1, Len(b)) = a

\* The line, trimmed, begins with a fence delimiter.
IsFenceLine(line) ==
    \/ StartsWith(Trim(line), BackFence)
    \/ StartsWith(Trim(line), TildeFence)

(***************************************************************************)
(* Properties of the controller, checked under Spec.                       *)
(***************************************************************************)

\* C1: after an update with isComplete = true, whatever came before it, and
\* once the deferred work has run, the committed region holds exactly the
\* single-shot rendering of the final content and the in-flight region is
\* empty.
C1_SelfHealingFinalRender ==
    (props.isComplete /\ Quiescent) =>
        /\ staticContainer = mdRender(props.content)
        /\ streamingContainer = <<>>

\* C2: every run of the watcher with isComplete = true, also when the
\* previous snapshot is empty, takes the finalize path and emits 'complete'
\* exactly once.
C2_CompleteAlwaysFinalizes ==
    [][(WatcherRan /\ props'.isComplete) =>
          /\ path' = "finalize"
          /\ CountOf(emitted', "complete") = 1]_vars

\* C3: after a non-final update and its deferred flush, the committed nodes
\* followed by the in-flight nodes are the rendering of every block of the
\* content, each once and in order.
C3_CoverageInvariant ==
    (~props.isComplete /\ path # "none" /\ Quiescent) =>
        staticContainer \o streamingContainer = RenderOfBlocks(props.content)

\* C4: a non-final update whose content does not start with the non-empty
\* previous snapshot is handled as a rewind: tail buffer, committed count
\* and snapshot are rebuilt from the new content alone (also when the new
\* content is a strict prefix of the snapshot).
C4_NonPrefixIsRewind ==
    [][(/\ WatcherRan
        /\ ~props'.isComplete
        /\ prevContent # <<>>
        /\ ~StartsWith(props'.content, prevContent)) =>
          LET blocks == splitIntoBlocks(props'.content)
          IN  /\ path' = "rewind"
              /\ tailMarkdown' = streamingBlockOf(blocks)
              /\ lastCompleteBlockCount' = Len(completeBlocksOf(blocks))
              /\ prevContent' = props'.content]_vars

\* C5: from a rewind on (before and after its deferred flush) every node of
\* the committed region is the rendering of a block of the new content.
C5_RewindSafety ==
    path = "rewind" =>
        \A i \in DOMAIN staticContainer :
            staticContainer[i] \in Range(RenderOfBlocks(props.content))

\* a rewind that cleared committed nodes of the old content which the new
\* content does not render, and whose flush has committed nodes again
C5_Witness ==
    /\ path = "rewind"
    /\ Quiescent
    /\ staticContainer # <<>>
    /\ discarded # <<>>
    /\ \A i \in DOMAIN discarded :
           discarded[i] \notin Range(RenderOfBlocks(props.content))

\* C6: between two returns to idle 'start' is emitted at most once, and
\* exactly once when non-empty content has arrived.
C6_StartOncePerSession ==
    /\ sessionStarts <= 1
    /\ sessionContent => sessionStarts = 1

\* C7: a run of the watcher with empty content emits no 'start'.
C7_NoStartOnEmptyContent ==
    props.content = <<>> => CountOf(emitted, "start") = 0

\* C8: in append flow (a fresh start followed by appends) the source of a
\* node already in the committed region is not part of any node the next
\* append renders in flight.
C8_CommittedNeverRevisited ==
    [][(/\ updates' # updates
        /\ path \in {"fresh", "append"}
        /\ path' = "append") =>
          \A i \in DOMAIN staticContainer :
              \A j \in DOMAIN streamingContainer' :
                  ~IsInfix(staticContainer[i], streamingContainer'[j])]_vars

\* C9: an update handled as an append never lowers lastCompleteBlockCount.
C9_MonotoneCommit ==
    [][(updates' # updates /\ path' = "append") =>
          lastCompleteBlockCount' >= lastCompleteBlockCount]_vars

\* an append has left the committed count above the number of complete
\* blocks of the current split of the tail buffer
C9_Witness ==
    /\ path = "append"
    /\ lastCompleteBlockCount >
           Len(completeBlocksOf(splitIntoBlocks(tailMarkdown)))

\* The block is a fence whose closing line has not arrived: its first line
\* opens a fence and no later line begins with the opening delimiter.
IsOpenFence(block) ==
    LET lines == SplitNL(block)
    IN  /\ IsFenceLine(lines[1])
        /\ \A k \in 2..Len(lines) :
               ~StartsWith(Trim(lines[k]), SubSeq(Trim(lines[1]), 1, 3))

\* The step runs a callback given to nextTick.
TickRan == tickQueue # <<>> /\ tickQueue' = Tail(tickQueue)

\* C11: while a fenced block is streamed by appends, no node of the
\* committed region is the rendering of a fence whose closing line has not
\* been delivered.
C11_OpenFenceStaysInFlight ==
    path = "append" =>
        \A i \in DOMAIN staticContainer : ~IsOpenFence(staticContainer[i])

\* C13: a run of flushToStatic appends the in-flight nodes, in their order,
\* to the end of the committed region, and an update handled as an append
\* leaves the committed region as it is.
C13_AppendOnlyLog ==
    [][/\ TickRan => staticContainer' = staticContainer \o streamingContainer
       /\ (updates' # updates /\ path' = "append") =>
              staticContainer' = staticContainer]_vars

\* in append flow a flush has added a node to a committed region that
\* already held a different node
C13_Witness ==
    /\ path = "append"
    /\ tickQueue = <<>>
    /\ Len(staticContainer) >= 2
    /\ staticContainer[1] # staticContainer[2]

\* C14: flushToStatic run when the in-flight container has no child nodes,
\* or when the containers are not there yet, leaves the committed region
\* and the block counter as they are; run twice in a row it has the effect
\* of running once.
C14_FlushIdempotent ==
    LET once == flushToStatic(State)
    IN  /\ flushToStatic(once) = once
        /\ (~mounted \/ streamingContainer = <<>>) =>
               /\ once.staticContainer = staticContainer
               /\ once.staticBlockCount = staticBlockCount

\* a flush has moved nodes and left the in-flight container empty
C14_Witness ==
    /\ path = "append"
    /\ tickQueue = <<>>
    /\ streamingContainer = <<>>
    /\ staticContainer # <<>>
    /\ staticBlockCount = Len(staticContainer)

\* C15: when a run of the watcher schedules flushToStatic for newly complete
\* blocks, the nodes the view holds in flight for that flush to move are the
\* rendering of exactly those blocks (the complete blocks from the previous
\* committed count on for an append, every complete block otherwise).
C15_FlushMovesCompleteBlocks ==
    [][(/\ WatcherRan
        /\ tickQueue' # <<>>
        /\ Head(tickQueue').fn = "flushToStatic") =>
          LET newBlocks ==
                  IF path' = "append"
                  THEN LET completeBlocks ==
                               completeBlocksOf(splitIntoBlocks(tailMarkdown'))
                       IN  SubSeq(completeBlocks, lastCompleteBlockCount + 1,
                                  Len(completeBlocks))
                  ELSE completeBlocksOf(splitIntoBlocks(props'.content))
          IN  streamingContainer' = accumulateHtml(newBlocks)]_vars

\* C16: in append flow (a fresh start followed by appends), when an append
\* makes further blocks of the split of the tail buffer locally complete
\* and their rendering is not empty, that run of the watcher renders them
\* and hands them to the flush: it schedules flushToStatic.
C16_NoCompleteBlockSkipped ==
    [][(/\ updates' # updates
        /\ path \in {"fresh", "append"}
        /\ path' = "append") =>
          LET old == completeBlocksOf(splitIntoBlocks(tailMarkdown))
              new == completeBlocksOf(splitIntoBlocks(tailMarkdown'))
          IN  accumulateHtml(SubSeq(new, Len(old) + 1, Len(new))) # <<>> =>
                  /\ tickQueue' # <<>>
                  /\ Head(tickQueue').fn = "flushToStatic"]_vars

\* C17: after every non-final update the tail buffer is a suffix of the
\* content snapshot.
C17_TailIsSuffixOfContent ==
    (path \in {"fresh", "append", "rewind", "shrink"} /\ ~props.isComplete) =>
        IsSuffix(tailMarkdown, prevContent)

\* C19: after every non-final update handled as a fresh start, an append or
\* a rewind, streamingHtml is the rendering of the last block of the split
\* of the tail buffer, and of nothing else.
C19_InFlightIsOpenBlock ==
    (path \in {"fresh", "append", "rewind"} /\ ~props.isComplete) =>
        streamingHtml =
            renderBlockHtml(streamingBlockOf(splitIntoBlocks(tailMarkdown)))

\* C20: an update with empty content and isComplete = false that arrives
\* while content is streaming leaves the committed region, the in-flight
\* fragment, the tail buffer and the snapshot empty and the committed count
\* 0, and emits no 'complete'.
C20_ResetClearsEverything ==
    [][(/\ updates' # updates
        /\ prevContent # <<>>
        /\ props'.content = <<>>
        /\ ~props'.isComplete) =>
          /\ staticContainer' = <<>>
          /\ streamingHtml' = <<>>
          /\ tailMarkdown' = <<>>
          /\ lastCompleteBlockCount' = 0
          /\ prevContent' = <<>>
          /\ CountOf(emitted', "complete") = 0]_vars

\* C21: once the callback finalizeAll gave to nextTick has run, the tail
\* buffer, the in-flight fragment, its dedupe key and the content snapshot
\* are empty and the committed count is 0.
C21_FinalizeClearsTransientState ==
    (path = "finalize" /\ tickQueue = <<>>) =>
        /\ tailMarkdown = <<>>
        /\ lastCompleteBlockCount = 0
        /\ streamingHtml = <<>>
        /\ lastRenderKey = <<>>
        /\ prevContent = <<>>

\* C23: a non-final update whose content starts with the non-empty previous
\* snapshot appends exactly the new characters to the tail buffer, makes
\* the content the snapshot, and neither clears the committed region nor
\* lowers the committed count; when there are no new characters the tail
\* buffer and the committed count stay as they are, no flush is scheduled
\* and nothing but the rendering of the open block is published.
C23_AppendEffectAndFrame ==
    [][(/\ updates' # updates
        /\ ~props'.isComplete
        /\ prevContent # <<>>
        /\ StartsWith(props'.content, prevContent)) =>
          LET suffix == Slice(props'.content, Len(prevContent))
          IN  /\ path' = "append"
              /\ tailMarkdown' = tailMarkdown \o suffix
              /\ prevContent' = props'.content
              /\ staticContainer' = staticContainer
              /\ lastCompleteBlockCount' >= lastCompleteBlockCount
              /\ suffix = <<>> =>
                     /\ lastCompleteBlockCount' = lastCompleteBlockCount
                     /\ tickQueue' = tickQueue
                     /\ streamingHtml' \in
                            {streamingHtml,
                             renderBlockHtml(streamingBlockOf(
                                 splitIntoBlocks(tailMarkdown)))}]_vars

\* an append has just run with a committed region that was not empty, has
\* left more than one character in the tail buffer and has scheduled a
\* flush that has not run yet
C23_Witness ==
    /\ path = "append"
    /\ tickQueue # <<>>
    /\ staticContainer # <<>>
    /\ Len(tailMarkdown) > 1
    /\ lastCompleteBlockCount > 0

\* C24: in every reachable state the dedupe key lastRenderKey is the
\* published value of streamingHtml.
C24_DedupeKeyTracksDisplay == lastRenderKey = streamingHtml

(***************************************************************************)
(* Properties of deferred callbacks, checked under SameFlushSpec.          *)
(***************************************************************************)

\* C22: a callback given to nextTick by one update that runs after a later
\* update changes neither the snapshot, the tail buffer, the committed
\* count, the in-flight fragment nor the committed region.
C22_StaleCallbackIsNoOp ==
    [][(TickRan /\ stale > 0) =>
          /\ prevContent' = prevContent
          /\ tailMarkdown' = tailMarkdown
          /\ lastCompleteBlockCount' = lastCompleteBlockCount
          /\ streamingHtml' = streamingHtml
          /\ staticContainer' = staticContainer]_vars

(***************************************************************************)
(* Properties of the block splitter, checked under SplitSpec.              *)
(***************************************************************************)

\* The fence regions of the lines from line i on: <<open, close>>, where
\* close is the first line after open that begins (after trimming, as the
\* opening line is recognised) with the delimiter of open, or the last line.
RECURSIVE FenceRegions(_, _)
FenceRegions(lines, i) ==
    IF i > Len(lines) THEN {}
    ELSE IF ~IsFenceLine(lines[i]) THEN FenceRegions(lines, i + 1)
    ELSE LET delim == SubSeq(Trim(lines[i]), 1, 3)
             closers == {k \in (i + 1)..Len(lines) :
                            StartsWith(Trim(lines[k]), delim)}
             close == IF closers = {} THEN Len(lines)
                      ELSE CHOOSE k \in closers : \A m \in closers : k <= m
         IN  {<<i, close>>} \cup FenceRegions(lines, close + 1)

\* C10: the lines of a fence region, from the opening line to the closing
\* line (or the end of the input), blank lines included, are one block of
\* the result.
C10_FenceIntegrity ==
    splitPc = "done" =>
        LET lines == SplitNL(splitInput)
        IN  \A r \in FenceRegions(lines, 1) :
                JoinNL(SubSeq(lines, r[1], r[2])) \in Range(splitOutput)

\* a closed fence region with a blank line inside has been split
C10_Witness ==
    /\ splitPc = "done"
    /\ LET lines == SplitNL(splitInput)
       IN  \E r \in FenceRegions(lines, 1) :
               /\ r[2] < Len(lines)
               /\ \E k \in (r[1] + 1)..(r[2] - 1) : Trim(lines[k]) = <<>>

\* C12: the result of splitIntoBlocks has at least one block, and for the
\* empty string it is the single empty block.
C12_SplitNeverEmpty ==
    splitPc = "done" =>
        /\ Len(splitOutput) >= 1
        /\ splitInput = <<>> => splitOutput = << <<>> >>

\* the empty string has been split
C12_Witness == splitPc = "done" /\ splitInput = <<>>

\* C18: for every string s and every string t, the blocks of
\* splitIntoBlocks(s) but the last are, in order, the first blocks of
\* splitIntoBlocks(s + t).  (The input that was split is s + t; s ranges
\* over its prefixes.)
C18_CompleteBlocksStable ==
    splitPc = "done" =>
        \A n \in 0..Len(splitInput) :
            StartsWith(splitOutput,
                       completeBlocksOf(
                           splitIntoBlocks(Substring0(splitInput, n))))

(***************************************************************************)
(* Properties of the attachments composable, checked under AttachSpec.     *)
(***************************************************************************)

\* C25: in every reachable state, whatever the interleaving of the calls of
\* addFile with removeAttachment and clearAttachments, the number of
\* attachments is at most MAX_ATTACHMENTS.
C25_AttachmentLimit == Len(attachments) <= MAX_ATTACHMENTS

(***************************************************************************)
(* Properties of the lazy highlighter, checked under HighlightSpec.        *)
(***************************************************************************)

\* C26: no error of the highlighter leaves highlightBlock; an element for
\* which the highlighter threw keeps its original content and is marked as
\* needing no highlight; and no element is given to highlightBlock more
\* than once.
C26_HighlightFailureRecovered ==
    /\ ~uncaught
    /\ \A i \in DOMAIN codeBlocks :
           /\ codeBlocks[i].calls <= 1
           /\ codeBlocks[i].threw =>
                  /\ codeBlocks[i].innerHTML = "original"
                  /\ ~codeBlocks[i].needsHighlight

\* the highlighter threw for one element of the container and another
\* element, processed after it, has been highlighted
C26_Witness ==
    \E i, j \in DOMAIN codeBlocks :
        /\ i < j
        /\ codeBlocks[i].threw
        /\ codeBlocks[j].innerHTML = "highlighted"

====
